---- MODULE Spec2Model ----
(***************************************************************************)
(* Model of the live scanning pipeline of                                  *)
(* src/src/components/BarcodeScanner.tsx: the candidate aggregator         *)
(* (handleBarcodeDetected), the debounced selection (selectBestBarcode),   *)
(* the cooldown on the last accepted value, the asynchronous text          *)
(* extraction (extractTextWithAI), the manual OCR scan (performOCRScan),   *)
(* the photo upload (handlePhotoUpload) and the restarts of the scanner    *)
(* (startScanning) with the outcomes of opening the camera.                *)
(*                                                                         *)
(* The component is a React function component.  Refs (useRef) are shared  *)
(* mutable cells; isProcessing is React state (useState), so a callback    *)
(* reads the value of the render that created the callback.  The decoder   *)
(* callbacks are created by startScanning, which the effect of line 64     *)
(* runs only when facingMode or scanMode change: handleBarcodeDetected and *)
(* selectBestBarcode reached from a decoder therefore read the isProcessing*)
(* of the render in which the scanner was (re)started.  The model keeps    *)
(* that captured value with every decoder callback and every timer.        *)
(*                                                                         *)
(* Time is the value of Date.now() in milliseconds.                        *)
(***************************************************************************)
EXTENDS Integers, Sequences, FiniteSets, TLC

-----------------------------------------------------------------------------
(* Program constants *)

\* handleBarcodeDetected: now - lastScanTimeRef.current < 3000
COOLDOWN == 3000
\* handleBarcodeDetected: window.setTimeout(..., 1500)
WINDOW == 1500
\* README, Instant Barcode Detection: "in under 1 second"
REPORT_LIMIT == 1000
\* App.handleScan: const COOLDOWN = 3000
APP_COOLDOWN == 3000
\* App.handleScan: prev.slice(0, 9), the list keeps KEEP + 1 results
KEEP == 9
\* instant-mode variant: the time within which the last emitted value is skipped
INSTANT_COOLDOWN == 1000

-----------------------------------------------------------------------------
(* Bounds of the model *)

\* the model follows the clock for MaxWindows arbitration windows after the mount
MaxWindows == 4
\* a candidate's hit count is followed up to MaxHits
MaxHits == 3
\* at most MaxCands distinct values are aggregated before a flush clears them
MaxCands == 2
\* number of aggregated detections followed in one behaviour
MaxDetect == 3
\* number of manual OCR scans followed in one behaviour
MaxOcr == 1
\* SpecFlush draws candidate sets of up to MaxFlushCands entries
MaxFlushCands == 3
\* number of photo uploads followed in one behaviour
MaxPhoto == 1
\* number of detections dropped by the cooldown test that DetectCounted follows
MaxDropped == 1
\* a timeout is followed up to MaxLate after its due time
MaxLate == 1500
MaxTaps == 2
MaxInstant == 2
\* taps on the camera and mode switches followed in one behaviour: one, where a
\* single run of startScanning waits for the camera, and two, where two runs may
\* wait at once and answer in either order
MaxPending == 1
MaxRestarts == 2

\* decoded values the decoders may report (getText() / codeResult.code)
Values == {"", "111", "555", "999999999999999999"}
\* format tags the decoders may report
Formats == {"code_128", "ean_13"}
\* the detections the decoders report in the running pipeline
Detections ==
    { [code |-> "111", format |-> "ean_13", source |-> "ZXing"],
      [code |-> "111", format |-> "ean_13", source |-> "Quagga"],
      [code |-> "999999999999999999", format |-> "code_128", source |-> "Quagga"] }
\* detections in which the two decoders tag one value with different formats
TaggedDetections ==
    { [code |-> v, format |-> "ean_13", source |-> "ZXing"] : v \in {"111", "999999999999999999"} }
    \cup { [code |-> v, format |-> "code_128", source |-> "Quagga"] :
               v \in {"111", "999999999999999999"} }
\* message contents the text-extraction service may return
Contents == {"", " ", "NO_TEXT_FOUND", " NO_TEXT_FOUND ", "LOT 42", " LOT 42 "}
\* what a text-extraction request may run into
Responses ==
    {[kind |-> k, content |-> ""] : k \in {"noKey", "fetchThrows", "apiError", "noChoices"}}
    \cup {[kind |-> "content", content |-> c] : c \in Contents}
\* the one response followed where the text of a result plays no part
OneResponse == { [kind |-> "fetchThrows", content |-> ""] }

\* Date.now() when the component mounts: any value that leaves lastScanTimeRef's
\* initial 0 more than a cooldown in the past
Epoch == COOLDOWN + WINDOW
\* the clock advances to the next due timeout, or else by one window
Tick == WINDOW
\* the finer step of the clock: detections less than a window apart
HalfTick == WINDOW \div 2
\* the last instant the model follows
Horizon == Epoch + MaxWindows * WINDOW

ScanModes == {"barcode-ocr", "ocr-only", "photo-upload"}

\* what opening the camera may end with: "ok", or the error that is thrown
CameraOutcomes ==
    { [name |-> "ok", message |-> ""],
      [name |-> "NotAllowedError", message |-> "Permission denied"],
      [name |-> "NotFoundError", message |-> "Requested device not found"],
      [name |-> "NotReadableError", message |-> "Could not start video source"],
      [name |-> "OverconstrainedError", message |-> "Invalid constraint"],
      [name |-> "AbortError", message |-> ""] }
\* the outcome followed where the failure of the camera or of play() plays no part
CameraOpens == { [name |-> "ok", message |-> ""] }
\* what videoRef.current.play() may end with: "ok", or the error it rejects with
PlayOutcomes ==
    { [name |-> "ok", message |-> ""],
      [name |-> "NotAllowedError", message |-> "play() failed"],
      [name |-> "AbortError",
       message |-> "The play() request was interrupted by a new load request."] }
\* the results handed to App.handleScan where App is followed on its own
ScanInputs ==
    { [barcode |-> [value |-> "111", format |-> "ean_13"], hasBarcode |-> TRUE, text |-> ""],
      [barcode |-> [value |-> "", format |-> ""], hasBarcode |-> FALSE, text |-> "LOT 42"] }
\* what decodeFromImageUrl may find in an uploaded photo
PhotoDecodes ==
    { [hasBarcode |-> FALSE, value |-> "", format |-> ""],
      [hasBarcode |-> TRUE, value |-> "555", format |-> "ean_13"],
      [hasBarcode |-> TRUE, value |-> "", format |-> "qr_code"] }

-----------------------------------------------------------------------------
VARIABLES
    now,            \* Date.now()
    isProcessing,   \* useState isProcessing, value of the latest render
    scanMode,       \* useState scanMode
    lastBarcode,    \* lastBarcodeRef.current
    lastScanTime,   \* lastScanTimeRef.current
    candidates,     \* candidateBarcodesRef.current, a Map in insertion order
    timers,         \* the pending timeouts set by handleBarcodeDetected
    timerRef,       \* barcodeSelectionTimerRef.current: a timeout id, 0 for null
    handlers,       \* live decoder callbacks, each by its decoder and the render
                    \* values it captured
    inflight,       \* extractTextWithAI calls not yet settled
    emitted,        \* the ScanResults passed to onScan, in order
    accepts,        \* history: the candidates accepted by selectBestBarcode
    flushed,        \* history: what the last run of selectBestBarcode did
    hits,           \* history: detections aggregated per value since the set was cleared
    seenDet,        \* number of detections aggregated so far
    ocrScans,       \* number of taps on the scan button of the OCR-only mode so far
    calls,          \* history: the invocations of extractTextWithAI, in order
    error,          \* useState error
    photos,         \* number of photo uploads so far
    camera,         \* history: what the camera answered last to a run of startScanning
    restarts,       \* the runs of startScanning that wait for the camera, oldest first
    readers,        \* the decoder callbacks registered so far: none is ever removed
    quaggaRunning,  \* quaggaRunningRef.current
    quaggaInits,    \* the calls of Quagga.init whose callback has not run yet
    switches,       \* history: number of taps on the camera and mode switches so far
    plays,          \* the runs of startOCROnlyMode that wait for videoRef.current.play()
    lastResult,     \* App: useState lastResult
    appLastScanTime,\* App: useState lastScanTime
    scanResults,    \* App: useState scanResults, newest first
    dropped,        \* history: detections dropped by the cooldown test, where counted
    reported,       \* history: the (value, format) pairs aggregated since the set was cleared
    settled,        \* history: the call that settled last and the response it got
    inApp           \* whether the parent that passes onScan is App, or one that only
                    \* takes the results: nothing in BarcodeScanner depends on which

vars == <<now, isProcessing, scanMode, lastBarcode, lastScanTime, candidates, timers,
          timerRef, handlers, inflight, emitted, accepts, flushed, hits, seenDet, ocrScans,
          calls, error, photos, camera, lastResult, appLastScanTime, scanResults, dropped,
          reported, settled, restarts, readers, quaggaRunning, quaggaInits, switches, plays, inApp>>

NoBarcode == [value |-> "", format |-> ""]
NoData == [format |-> "", source |-> "", count |-> 0, firstSeen |-> 0]
NoBest == [code |-> "", data |-> NoData]
NoHits == [v \in Values |-> 0]
\* no call of extractTextWithAI has settled yet
NoSettle == [origin |-> "none", at |-> 0, resp |-> [kind |-> "none", content |-> ""]]

NoFlush == [at |-> 0, outcome |-> "never", seen |-> <<>>, best |-> NoBest, hits |-> NoHits,
            reported |-> {}]

-----------------------------------------------------------------------------
(* Pure parts *)

\* String.prototype.trim on the contents the model draws
Trim(s) ==
    CASE s = " " -> ""
      [] s = " NO_TEXT_FOUND " -> "NO_TEXT_FOUND"
      [] s = " LOT 42 " -> "LOT 42"
      [] OTHER -> s

\* candidateBarcodesRef.current.get(barcodeValue): index of the entry, 0 if none
IndexOf(cands, code) ==
    IF \E i \in DOMAIN cands : cands[i].code = code
    THEN CHOOSE i \in DOMAIN cands : cands[i].code = code
    ELSE 0

\* mutant: a repeated detection counts twice
Observe_DoubleIncrement(cands, code, format, source, t) ==
    IF \E i \in DOMAIN cands : cands[i].code = code
    THEN [i \in DOMAIN cands |->
            IF cands[i].code = code THEN [cands[i] EXCEPT !.count = @ + 2] ELSE cands[i]]
    ELSE Append(cands, [code |-> code, format |-> format, source |-> source,
                        count |-> 1, firstSeen |-> t])

\* mutant: a repeated detection overwrites the format and the source of its entry
Observe_Retags(cands, code, format, source, t) ==
    IF \E i \in DOMAIN cands : cands[i].code = code
    THEN [i \in DOMAIN cands |->
            IF cands[i].code = code
            THEN [cands[i] EXCEPT !.count = @ + 1, !.format = format, !.source = source]
            ELSE cands[i]]
    ELSE Append(cands, [code |-> code, format |-> format, source |-> source,
                        count |-> 1, firstSeen |-> t])

\* handleBarcodeDetected, "Add to candidates or update count"
Observe(cands, code, format, source, t) ==
    LET i == IndexOf(cands, code) IN
    IF i # 0
    THEN [cands EXCEPT ![i].count = @ + 1]
    ELSE Append(cands, [code |-> code, format |-> format, source |-> source,
                        count |-> 1, firstSeen |-> t])

\* mutant: no detection is skipped
Suppressed_Never(code, last, lastTime, t) == FALSE

\* handleBarcodeDetected, "Skip if this is the same barcode we just processed"
Suppressed(code, last, lastTime, t) ==
    code = last /\ t - lastTime < COOLDOWN

\* mutant: the first pass finds no Code 128
HasCode128_NoPriority(cands) == FALSE

\* selectBestBarcode, first pass
HasCode128(cands) ==
    \E i \in DOMAIN cands : cands[i].format = "code_128"

DataOf(c) ==
    [format |-> c.format, source |-> c.source, count |-> c.count, firstSeen |-> c.firstSeen]

\* mutant: the second pass without the tie-break on the hit count
Better_NoTieBreak(c, best) ==
    \/ best.code = ""
    \/ Len(c.code) > Len(best.code)

\* selectBestBarcode, the test of the second pass
Better(c, best) ==
    \/ best.code = ""
    \/ Len(c.code) > Len(best.code)
    \/ (Len(c.code) = Len(best.code) /\ c.count > best.data.count)

\* selectBestBarcode, second pass over the entries in insertion order
RECURSIVE SecondPass(_, _, _, _)
SecondPass(cands, i, hasCode128, best) ==
    IF i > Len(cands) THEN best
    ELSE LET c == cands[i] IN
         IF hasCode128 /\ c.format # "code_128"
         THEN SecondPass(cands, i + 1, hasCode128, best)
         ELSE IF Better(c, best)
              THEN SecondPass(cands, i + 1, hasCode128, [code |-> c.code, data |-> DataOf(c)])
              ELSE SecondPass(cands, i + 1, hasCode128, best)

\* selectBestBarcode: bestBarcode / bestData after both passes
SelectBest(cands) ==
    SecondPass(cands, 1, HasCode128(cands), NoBest)

\* extractTextWithAI: the string the promise resolves to (it never rejects)
ExtractTextWithAI(resp) ==
    IF resp.kind = "noKey" THEN ""
    ELSE IF resp.kind = "fetchThrows" THEN ""
    ELSE IF resp.kind = "apiError" THEN ""
    ELSE IF resp.kind = "content" /\ resp.content # ""
         THEN LET text == Trim(resp.content) IN
              IF text = "NO_TEXT_FOUND" \/ text = "" THEN "" ELSE text
    ELSE ""

\* how the promise of extractTextWithAI settles
Settle(resp) == [rejected |-> FALSE, text |-> ExtractTextWithAI(resp)]

\* selectBestBarcode, .then / .catch: the text of the emitted result
BarcodeText(outcome) ==
    IF outcome.rejected THEN "(AI extraction failed)"
    ELSE IF outcome.text # "" THEN outcome.text
    ELSE "(No text found)"

\* what the request ran into, as the consumer is meant to tell it apart
OutcomeClass(resp) ==
    IF resp.kind \in {"noKey", "fetchThrows", "apiError"} THEN "failed"
    ELSE IF resp.kind = "noChoices" THEN "malformed"
    ELSE IF Trim(resp.content) = "" \/ Trim(resp.content) = "NO_TEXT_FOUND" THEN "notext"
    ELSE "text"

\* mutant: a run that goes on over an empty set
FlushOutcome_NoEmptyCheck(cands, proc) ==
    IF proc THEN "busy" ELSE "accepted"

\* selectBestBarcode: which way one run goes
FlushOutcome(cands, proc) ==
    IF Len(cands) = 0 THEN "empty"
    ELSE IF proc THEN "busy"
    ELSE IF SelectBest(cands).code = "" THEN "novalid"
    ELSE "accepted"

\* mutant: every invocation of the service is issued twice
Invoke_Twice(log, call) == Append(Append(log, call), call)

\* extractTextWithAI(screenshot) is invoked: one more invocation on record
Invoke(log, call) == Append(log, call)

\* mutant: the continuation reports the barcode accepted last
ResultBarcode_Latest(call) == [value |-> lastBarcode, format |-> call.format]

\* selectBestBarcode, .then / .catch: the barcode of the emitted result is the
\* bestBarcode / bestData.format of the closure that started the call
ResultBarcode(call) == [value |-> call.value, format |-> call.format]

\* mutant: a result without a text gets the placeholder
SnapshotFailedText_Placeholder == "(No text found)"

\* selectBestBarcode, captureFrame returned null: the text of the emitted result
SnapshotFailedText == ""

\* mutant: the pending timeout is not cancelled
ClearTimeout_Keep(table, id) == table

\* clearTimeout(barcodeSelectionTimerRef.current) on the table of pending timeouts
ClearTimeout(table, id) == {t \in table : t.id # id}

\* mutant: every timeout is due at a fixed instant of the first window
SetTimeout_FixedWindow(table, id, t, cl) ==
    table \cup {[id |-> id, due |-> Epoch + 2 * WINDOW, proc |-> cl.proc, scan |-> cl.scan]}

\* window.setTimeout(() => selectBestBarcode(), 1500) on the table of pending timeouts
SetTimeout(table, id, t, cl) ==
    table \cup {[id |-> id, due |-> t + WINDOW, proc |-> cl.proc, scan |-> cl.scan]}

\* the ScanResult of the barcode pipeline.  barcode and text are the fields of the
\* ScanResult; class, origin and acceptedAt are history kept beside it: what the
\* extraction request ran into, the path that emitted, the time of the acceptance
BarcodeResult(value, format, text, class, at) ==
    [barcode |-> [value |-> value, format |-> format], hasBarcode |-> TRUE, text |-> text,
     class |-> class, origin |-> "live", acceptedAt |-> at]

\* the ScanResult of performOCRScan
TextResult(text, class, at) ==
    [barcode |-> NoBarcode, hasBarcode |-> FALSE, text |-> text,
     class |-> class, origin |-> "ocr", acceptedAt |-> at]

\* the ScanResult of handlePhotoUpload, with or without a barcode
PhotoResult(hasBarcode, value, format, text, class, at) ==
    [barcode |-> [value |-> value, format |-> format], hasBarcode |-> hasBarcode,
     text |-> text, class |-> class, origin |-> "photo", acceptedAt |-> at]

\* mutant: the text-only result of a photo is emitted whatever the text
PhotoHasText_Always(text) == TRUE

\* handlePhotoUpload: the test that guards the text-only onScan
PhotoHasText(text) == text # "" /\ Trim(text) # ""

\* mutant: performOCRScan emits whatever the extraction returned
OcrHasText_Always(text) == TRUE

\* performOCRScan: the test that guards onScan
OcrHasText(text) == text # "" /\ Trim(text) # "" /\ text # "NO_TEXT_FOUND"

\* App.handleScan: result.barcode?.value || result.text || ''
ResultKey(result) ==
    IF result.hasBarcode /\ result.barcode.value # "" THEN result.barcode.value
    ELSE IF result.text # "" THEN result.text
    ELSE ""

\* App.handleScan: the test that ignores a duplicate.  lastResult and lastScanTime
\* are React state: the function reads the values of the render that created it
Ignored(key, scan, t) ==
    key = scan.lastResult /\ t - scan.lastScanTime < APP_COOLDOWN

\* App.handleScan: newResult
DisplayResult(result, t) ==
    [barcode |-> result.barcode, hasBarcode |-> result.hasBarcode, text |-> result.text,
     timestamp |-> t]

\* mutant: the list is never cut
Prepend_KeepAll(list, entry) == <<entry>> \o list

\* App.handleScan: [newResult, ...prev.slice(0, 9)]
Prepend(list, entry) ==
    <<entry>> \o SubSeq(list, 1, IF Len(list) < KEEP THEN Len(list) ELSE KEEP)

\* mutant: a settled call stays pending
RemoveAt_Keep(seq, i) == seq

\* a sequence without its i-th element
RemoveAt(seq, i) ==
    [j \in 1..(Len(seq) - 1) |-> IF j < i THEN seq[j] ELSE seq[j + 1]]

-----------------------------------------------------------------------------
(* The running pipeline *)

\* the state of App as a function created in the current render of App reads it
AppScan == [lastResult |-> lastResult, lastScanTime |-> appLastScanTime]

\* what a callback created in the current render of BarcodeScanner captures:
\* isProcessing, and onScan, which is the handleScan of the current render of App
Closure == [proc |-> isProcessing, scan |-> AppScan]

\* the callback given to decodeFromVideoDevice by a run of startScanning
ZXingCallback(cl) == [src |-> "ZXing", cl |-> cl]

\* the callback given to Quagga.onDetected by the callback of Quagga.init
QuaggaCallback(cl) == [src |-> "Quagga", cl |-> cl]

\* App.handleScan(result), called through the onScan of a closure
HandleScan(result, scan) ==
    IF ~inApp \/ Ignored(ResultKey(result), scan, now)
    THEN UNCHANGED <<lastResult, appLastScanTime, scanResults>>
    ELSE /\ lastResult' = ResultKey(result)
         /\ appLastScanTime' = now
         /\ scanResults' = Prepend(scanResults, DisplayResult(result, now))

\* onScan(result): the result is passed to App.handleScan
OnScan(result, scan) ==
    /\ emitted' = Append(emitted, result)
    /\ HandleScan(result, scan)

\* a path on which onScan is not called
NoScan == UNCHANGED <<emitted, lastResult, appLastScanTime, scanResults>>

\* the component after its first render, decoders apart
Rendered(parentIsApp) ==
    /\ inApp = parentIsApp
    /\ settled = NoSettle
    /\ reported = {}
    /\ now = Epoch
    /\ isProcessing = FALSE
    /\ scanMode = "barcode-ocr"
    /\ lastBarcode = ""
    /\ lastScanTime = 0
    /\ candidates = <<>>
    /\ timers = {}
    /\ timerRef = 0
    /\ inflight = <<>>
    /\ emitted = <<>>
    /\ accepts = <<>>
    /\ flushed = NoFlush
    /\ hits = NoHits
    /\ seenDet = 0
    /\ ocrScans = 0
    /\ calls = <<>>
    /\ error = ""
    /\ photos = 0
    /\ camera = [name |-> "ok", message |-> ""]
    /\ lastResult = ""
    /\ appLastScanTime = 0
    /\ scanResults = <<>>
    /\ dropped = 0
    /\ restarts = <<>>
    /\ switches = 0
    /\ plays = <<>>

\* the run of startScanning of the mount went on after its awaits, the camera
\* having opened: the ZXing callback is registered (157) and startQuagga has
\* called Quagga.init (170, 475), whose callback is yet to run
Mounted(parentIsApp) ==
    /\ Rendered(parentIsApp)
    /\ handlers = {ZXingCallback(Closure)}
    /\ readers = handlers
    /\ quaggaRunning = FALSE
    /\ quaggaInits = <<[cl |-> Closure]>>

\* BarcodeScanner once the camera opened, under a parent that only takes the results
Init == Mounted(FALSE)

\* BarcodeScanner once the camera opened, under App
InitApp == Mounted(TRUE)

\* time passes.  A timeout set by window.setTimeout runs when the event loop
\* gets to it, at its due time or later: the clock stops at every due time, so
\* that the timeout may run then, and may go on with the timeout still pending,
\* up to MaxLate after the due time
AdvanceBy(step) ==
    /\ now < Horizon
    /\ \A t \in timers : now < t.due + MaxLate
    /\ LET next == now + step
           stops == {t.due : t \in timers} \cup {t.due + MaxLate : t \in timers}
           ahead == {d \in stops : d > now /\ d < next}
       IN now' = IF ahead # {}
                 THEN CHOOSE d \in ahead : \A e \in ahead : d <= e
                 ELSE next
    /\ UNCHANGED <<isProcessing, scanMode, lastBarcode, lastScanTime, candidates, timers,
                   timerRef, handlers, inflight, emitted, accepts, flushed, hits, seenDet,
                   ocrScans, calls, error, photos, camera, dropped, reported, settled,
                   restarts, readers, quaggaRunning, quaggaInits, switches, plays, inApp,
                   lastResult, appLastScanTime, scanResults>>

\* the clock in steps of one window
Advance == AdvanceBy(Tick)

\* the clock in steps of half a window
AdvanceHalf == AdvanceBy(HalfTick)

\* mutant: a dropped detection restarts the arbitration window
HandleBarcodeDetected_Restarts(code, format, source, cl) ==
    /\ IF Suppressed(code, lastBarcode, lastScanTime, now)
       THEN /\ timers' = {[u EXCEPT !.due = now + WINDOW] : u \in timers}
            /\ UNCHANGED <<candidates, timerRef, hits, seenDet, reported>>
       ELSE /\ LET i == IndexOf(candidates, code) IN
               IF i # 0 THEN candidates[i].count < MaxHits
                        ELSE Len(candidates) < MaxCands
            /\ candidates' = Observe(candidates, code, format, source, now)
            /\ hits' = [hits EXCEPT ![code] = @ + 1]
            /\ reported' = reported \cup {[code |-> code, format |-> format]}
            /\ seenDet' = seenDet + 1
            /\ timerRef' = seenDet + 1
            /\ timers' = SetTimeout(ClearTimeout(timers, timerRef), seenDet + 1, now, cl)
    /\ UNCHANGED <<now, isProcessing, scanMode, lastBarcode, lastScanTime, handlers,
                   inflight, emitted, accepts, flushed, ocrScans, calls, error, photos, camera,
                   settled, restarts, readers, quaggaRunning, quaggaInits, switches, plays, inApp, lastResult, appLastScanTime, scanResults>>

\* a decoder callback calls handleBarcodeDetected(code, format, source)
HandleBarcodeDetected(code, format, source, cl) ==
    /\ IF Suppressed(code, lastBarcode, lastScanTime, now)
       THEN UNCHANGED <<candidates, timers, timerRef, hits, seenDet, reported>>
       ELSE /\ LET i == IndexOf(candidates, code) IN
               IF i # 0 THEN candidates[i].count < MaxHits
                        ELSE Len(candidates) < MaxCands
            /\ candidates' = Observe(candidates, code, format, source, now)
            /\ hits' = [hits EXCEPT ![code] = @ + 1]
            /\ reported' = reported \cup {[code |-> code, format |-> format]}
            /\ seenDet' = seenDet + 1
            /\ timerRef' = seenDet + 1
            /\ timers' = SetTimeout(ClearTimeout(timers, timerRef), seenDet + 1, now, cl)
    /\ UNCHANGED <<now, isProcessing, scanMode, lastBarcode, lastScanTime, handlers,
                   inflight, emitted, accepts, flushed, ocrScans, calls, error, photos, camera,
                   settled, restarts, readers, quaggaRunning, quaggaInits, switches, plays, inApp, lastResult, appLastScanTime, scanResults>>

\* one of the live decoder callbacks reports a detection, the aggregated
\* detections followed up to limit
DetectWithin(limit) ==
    \E d \in Detections, h \in handlers :
        /\ h.src = d.source
        /\ seenDet < limit
        /\ HandleBarcodeDetected(d.code, d.format, d.source, h.cl)
        /\ UNCHANGED dropped

\* one of the live decoder callbacks reports a detection
Detect == DetectWithin(MaxDetect)

\* the same where the scanner is restarted twice
DetectAcrossRestarts == DetectWithin(MaxRestarts)

\* the same, keeping count of the detections the cooldown test drops
DetectCounted ==
    \E d \in Detections, h \in handlers :
        /\ h.src = d.source
        /\ seenDet < MaxDetect
        /\ HandleBarcodeDetected(d.code, d.format, d.source, h.cl)
        /\ IF Suppressed(d.code, lastBarcode, lastScanTime, now)
           THEN dropped < MaxDropped /\ dropped' = dropped + 1
           ELSE UNCHANGED dropped

\* the decoders report one value under either format tag
DetectRetagged ==
    \E d \in TaggedDetections, h \in handlers :
        /\ h.src = d.source
        /\ seenDet < MaxDetect
        /\ HandleBarcodeDetected(d.code, d.format, d.source, h.cl)
        /\ UNCHANGED dropped

\* selectBestBarcode from "Clear candidates" on: the candidate is accepted
Accept(best, shot, scan) ==
    /\ candidates' = <<>>
    /\ hits' = NoHits
    /\ reported' = {}
    /\ lastBarcode' = best.code
    /\ lastScanTime' = now
    /\ accepts' = Append(accepts, [value |-> best.code, format |-> best.data.format,
                                   at |-> now, shot |-> shot])
    /\ IF ~shot
       THEN \* captureFrame returned null: barcode-only result, idle again
            /\ OnScan(BarcodeResult(best.code, best.data.format,
                                    SnapshotFailedText, "noshot", now), scan)
            /\ isProcessing' = FALSE
            /\ UNCHANGED <<inflight, calls>>
       ELSE \* extractTextWithAI(screenshot) is started and not awaited
            LET call == [origin |-> "live", hasBarcode |-> TRUE, value |-> best.code,
                         format |-> best.data.format, acceptedAt |-> now, scan |-> scan] IN
            /\ inflight' = Append(inflight, call)
            /\ calls' = Invoke(calls, call)
            /\ isProcessing' = TRUE
            /\ NoScan

\* a timeout of handleBarcodeDetected fires and runs selectBestBarcode
SelectBestBarcode ==
    \E t \in timers :
        /\ t.due <= now
        /\ timers' = timers \ {t}
        /\ LET outcome == FlushOutcome(candidates, t.proc)
               best == IF outcome = "accepted" THEN SelectBest(candidates) ELSE NoBest
           IN
           /\ flushed' = [at |-> now, outcome |-> outcome, seen |-> candidates, best |-> best,
                         hits |-> hits, reported |-> reported]
           /\ IF outcome = "accepted"
              THEN \E shot \in BOOLEAN : Accept(best, shot, t.scan)
              ELSE UNCHANGED <<isProcessing, lastBarcode, lastScanTime, candidates,
                               inflight, emitted, accepts, hits, calls, reported,
                               lastResult, appLastScanTime, scanResults>>
        /\ UNCHANGED <<now, scanMode, timerRef, handlers, seenDet, ocrScans, error, photos, camera,
                       dropped, settled, restarts, readers, quaggaRunning, quaggaInits, switches, plays, inApp>>

\* mutant: the manual OCR scan ends without releasing the flag
SettledFlag_OcrStaysBusy(origin) == origin = "ocr"

\* what the continuation of a call passes to setIsProcessing when it ends
SettledFlag(origin) == FALSE

\* a call of extractTextWithAI settles with resp and its continuation runs
Settled(i, resp) ==
    LET call == inflight[i]
        outcome == Settle(resp)
    IN
    /\ call.origin # "read"
    /\ inflight' = RemoveAt(inflight, i)
    /\ settled' = [origin |-> call.origin, at |-> call.acceptedAt, resp |-> resp]
    /\ isProcessing' = SettledFlag(call.origin)
    /\ IF call.origin = "live"
       THEN OnScan(BarcodeResult(ResultBarcode(call).value, ResultBarcode(call).format,
                                 BarcodeText(outcome), OutcomeClass(resp), call.acceptedAt),
                   call.scan)
       ELSE IF call.origin = "ocr"
       THEN \* performOCRScan after the await
            IF ~outcome.rejected /\ OcrHasText(outcome.text)
            THEN OnScan(TextResult(outcome.text, OutcomeClass(resp), call.acceptedAt),
                        call.scan)
            ELSE NoScan
       ELSE \* handlePhotoUpload, reader.onload after either await
            IF call.hasBarcode
            THEN OnScan(PhotoResult(TRUE, call.value, call.format, outcome.text,
                                    OutcomeClass(resp), call.acceptedAt), call.scan)
            ELSE IF PhotoHasText(outcome.text)
            THEN OnScan(PhotoResult(FALSE, "", "", outcome.text,
                                    OutcomeClass(resp), call.acceptedAt), call.scan)
            ELSE NoScan
    /\ UNCHANGED <<now, scanMode, lastBarcode, lastScanTime, candidates, timers, timerRef,
                   handlers, accepts, flushed, hits, seenDet, ocrScans, calls, error, photos,
                   camera, dropped, reported, restarts, readers, quaggaRunning, quaggaInits, switches, plays, inApp>>

\* a call settles, whatever the service answered
Resolve ==
    \E i \in DOMAIN inflight, resp \in Responses : Settled(i, resp)

\* a call settles, with the one response of OneResponse
ResolveOne ==
    \E i \in DOMAIN inflight, resp \in OneResponse : Settled(i, resp)

\* performOCRScan is called, at most limit times in a run
PerformOCRScanWithin(limit) ==
    /\ scanMode = "ocr-only"
    /\ ocrScans < limit
    /\ ocrScans' = ocrScans + 1
    /\ IF isProcessing
       THEN UNCHANGED <<isProcessing, lastScanTime, inflight, calls>>
       ELSE /\ lastScanTime' = now
            /\ \E shot \in BOOLEAN :
                 IF ~shot
                 THEN /\ isProcessing' = FALSE
                      /\ UNCHANGED <<inflight, calls>>
                 ELSE LET call == [origin |-> "ocr", hasBarcode |-> FALSE, value |-> "",
                                   format |-> "", acceptedAt |-> now, scan |-> AppScan] IN
                      /\ isProcessing' = TRUE
                      /\ inflight' = Append(inflight, call)
                      /\ calls' = Invoke(calls, call)
    /\ UNCHANGED <<now, scanMode, lastBarcode, candidates, timers, timerRef, handlers,
                   emitted, accepts, flushed, hits, seenDet, error, photos, camera, dropped,
                   reported, settled, restarts, readers, quaggaRunning, quaggaInits, switches, plays, inApp,
                   lastResult, appLastScanTime, scanResults>>

\* the user taps the scan button of the OCR-only mode
PerformOCRScan == PerformOCRScanWithin(MaxOcr)

\* the same, with a second tap that may come while the first scan is running
PerformOCRScanAgain == PerformOCRScanWithin(MaxTaps)

\* startScanning / startOCROnlyMode, catch: the message given to setError for
\* the error err that was thrown
ErrorMessage(mode, err) ==
    IF mode = "ocr-only"
    THEN "Failed to start OCR mode: " \o
           (CASE err.name = "NotAllowedError" -> "Please allow camera access."
              [] err.name = "NotFoundError" -> "No camera found."
              [] err.name = "NotReadableError" -> "Camera is in use."
              [] OTHER -> err.message)
    ELSE "Failed to start camera. " \o
           (CASE err.name = "NotAllowedError" ->
                    "Please allow camera access in your browser settings."
              [] err.name = "NotFoundError" -> "No camera found on this device."
              [] err.name = "NotReadableError" ->
                    "Camera is already in use by another application."
              [] OTHER -> IF err.message # "" THEN err.message
                          ELSE "Unknown error occurred.")

\* mutant: a restart forgets the last accepted barcode
StartScanning_ForgetsLast(mode) ==
    /\ error' = ""
    /\ handlers' = {}
    /\ quaggaRunning' = FALSE
    /\ restarts' = Append(restarts, [mode |-> mode, cl |-> Closure])
    /\ lastBarcode' = ""
    /\ lastScanTime' = 0
    /\ UNCHANGED <<candidates, timers, timerRef, camera, readers, quaggaInits, plays>>

\* the effect of line 64 runs startScanning of the render with the new mode,
\* up to its first await (127 in startScanning, 195 in startOCROnlyMode): the
\* error is cleared, the reader is dropped from codeReaderRef without being
\* stopped, Quagga is stopped if quaggaRunningRef says it runs, the tracks of
\* the stream are stopped and the stream is taken from the video element, so
\* that no callback has a frame to decode.  A call of Quagga.init whose callback
\* has not run is left alone.  The run then waits for the camera with the mode
\* and the callbacks of its render.  startScanning writes none of
\* lastBarcodeRef, lastScanTimeRef, candidateBarcodesRef and
\* barcodeSelectionTimerRef.
StartScanning(mode) ==
    /\ error' = ""
    /\ handlers' = {}
    /\ quaggaRunning' = FALSE
    /\ restarts' = Append(restarts, [mode |-> mode, cl |-> Closure])
    /\ UNCHANGED <<lastBarcode, lastScanTime, candidates, timers, timerRef, camera, readers,
                   quaggaInits, plays>>

\* toggleCamera, then the effect: one of the first limit taps on a switch
ToggleCameraWithin(limit) ==
    /\ scanMode # "photo-upload"
    /\ switches < limit
    /\ switches' = switches + 1
    /\ StartScanning(scanMode)
    /\ UNCHANGED <<now, isProcessing, scanMode, inflight, emitted, accepts, flushed, hits,
                   seenDet, ocrScans, calls, photos, dropped, reported, settled, inApp,
                   lastResult, appLastScanTime, scanResults>>

\* toggleCamera, no other run waiting for the camera
ToggleCamera == ToggleCameraWithin(MaxPending)

\* toggleCamera while another run may wait for the camera
ToggleCameraAgain == ToggleCameraWithin(MaxRestarts)

\* toggleScanMode: the next mode
NextMode(prev, isMobile) ==
    IF ~isMobile
    THEN (IF prev = "barcode-ocr" THEN "ocr-only" ELSE "barcode-ocr")
    ELSE CASE prev = "barcode-ocr" -> "ocr-only"
           [] prev = "ocr-only" -> "photo-upload"
           [] OTHER -> "barcode-ocr"

\* toggleScanMode, then the effect: one of the first limit taps on a switch
ToggleScanModeWithin(limit) ==
    /\ switches < limit
    /\ switches' = switches + 1
    /\ \E isMobile \in BOOLEAN :
         /\ scanMode' = NextMode(scanMode, isMobile)
         /\ StartScanning(scanMode')
    /\ UNCHANGED <<now, isProcessing, inflight, emitted, accepts, flushed, hits, seenDet,
                   ocrScans, calls, photos, dropped, reported, settled, inApp,
                   lastResult, appLastScanTime, scanResults>>

\* toggleScanMode, no other run waiting for the camera
ToggleScanMode == ToggleScanModeWithin(MaxPending)

\* toggleScanMode while another run may wait for the camera
ToggleScanModeAgain == ToggleScanModeWithin(MaxRestarts)

\* the ZXing callbacks registered so far: their readers were never stopped
ZXingReaders == {r \in readers : r.src = "ZXing"}

\* the callbacks given to Quagga.onDetected so far: none was ever removed
QuaggaReaders == {r \in readers : r.src = "Quagga"}

\* run i of startScanning goes on after its awaits, the camera having answered
\* with cam.  If the camera opened, a stream is attached to the video element
\* (by decodeFromVideoDevice at 157, by startOCROnlyMode at 251) and, unless the
\* run is one of the OCR-only mode, the ZXing callback of the run's render is
\* registered (157-167) and startQuagga is called (170): it returns at once if
\* quaggaRunningRef says Quagga runs (472), else it calls Quagga.init (475),
\* whose callback runs later.  The readers of earlier runs were never stopped:
\* whether an earlier ZXing callback fires again now that there are frames is
\* left open.  A run of the OCR-only mode then waits for play() (252).  If the
\* camera did not open, the catch (173-188, 260-276) sets the message and
\* nothing else.
Started(i, cam) ==
    LET run == restarts[i]
        decodes == cam.name = "ok" /\ run.mode # "ocr-only"
    IN
    /\ restarts' = RemoveAt(restarts, i)
    /\ camera' = cam
    /\ IF cam.name = "ok"
       THEN /\ \E kept \in SUBSET ZXingReaders :
                  handlers' = handlers \cup kept
                                \cup (IF decodes THEN {ZXingCallback(run.cl)} ELSE {})
            /\ readers' = readers \cup (IF decodes THEN {ZXingCallback(run.cl)} ELSE {})
            /\ UNCHANGED error
       ELSE /\ error' = ErrorMessage(run.mode, cam)
            /\ UNCHANGED <<handlers, readers>>
    /\ quaggaInits' = IF decodes /\ ~quaggaRunning
                      THEN Append(quaggaInits, [cl |-> run.cl])
                      ELSE quaggaInits
    /\ plays' = IF cam.name = "ok" /\ run.mode = "ocr-only"
                THEN Append(plays, run)
                ELSE plays
    /\ UNCHANGED <<now, isProcessing, scanMode, lastBarcode, lastScanTime, candidates,
                   timers, timerRef, inflight, emitted, accepts, flushed, hits, seenDet,
                   ocrScans, calls, photos, dropped, reported, settled, inApp,
                   quaggaRunning, switches, lastResult, appLastScanTime, scanResults>>

\* a waiting run goes on, the camera having opened
CameraOpened ==
    \E i \in DOMAIN restarts, cam \in CameraOpens : Started(i, cam)

\* a waiting run goes on, whatever the camera answered
CameraAnswered ==
    \E i \in DOMAIN restarts, cam \in CameraOutcomes : Started(i, cam)

\* run k of startOCROnlyMode goes on after the await of play() (252), the
\* stream being attached since 251: play() resolved, or it rejected with err
\* and the catch (260-276) sets the message
Played(k, err) ==
    /\ plays' = RemoveAt(plays, k)
    /\ IF err.name = "ok"
       THEN UNCHANGED error
       ELSE error' = ErrorMessage("ocr-only", err)
    /\ UNCHANGED <<now, isProcessing, scanMode, lastBarcode, lastScanTime, candidates,
                   timers, timerRef, handlers, inflight, emitted, accepts, flushed, hits,
                   seenDet, ocrScans, calls, photos, camera, dropped, reported, settled,
                   restarts, readers, quaggaRunning, quaggaInits, switches, inApp,
                   lastResult, appLastScanTime, scanResults>>

\* a run of startOCROnlyMode goes on, play() having resolved
VideoPlaying ==
    \E k \in DOMAIN plays, err \in CameraOpens : Played(k, err)

\* a run of startOCROnlyMode goes on, however play() ended
VideoPlayed ==
    \E k \in DOMAIN plays, err \in PlayOutcomes : Played(k, err)

\* the callback of call j of Quagga.init runs (517-546), whatever startScanning
\* did since the call.  With an error it returns (518-521).  Else it starts
\* Quagga, sets quaggaRunningRef and gives Quagga.onDetected the callback of
\* the render of the run that called startQuagga.  The callbacks given to
\* Quagga.onDetected before were never removed: whether one of them fires again
\* now that Quagga runs is left open.
QuaggaInitDone(j, err) ==
    LET call == quaggaInits[j] IN
    /\ quaggaInits' = RemoveAt(quaggaInits, j)
    /\ IF err
       THEN UNCHANGED <<handlers, readers, quaggaRunning>>
       ELSE /\ quaggaRunning' = TRUE
            /\ \E kept \in SUBSET QuaggaReaders :
                  handlers' = handlers \cup kept \cup {QuaggaCallback(call.cl)}
            /\ readers' = readers \cup {QuaggaCallback(call.cl)}
    /\ UNCHANGED <<now, isProcessing, scanMode, lastBarcode, lastScanTime, candidates,
                   timers, timerRef, inflight, emitted, accepts, flushed, hits, seenDet,
                   ocrScans, calls, error, photos, camera, dropped, reported, settled,
                   restarts, switches, plays, inApp, lastResult, appLastScanTime,
                   scanResults>>

\* Quagga.init calls back without an error
QuaggaStarted ==
    \E j \in DOMAIN quaggaInits : QuaggaInitDone(j, FALSE)

\* Quagga.init calls back, with an error or without
QuaggaAnswered ==
    \E j \in DOMAIN quaggaInits, err \in BOOLEAN : QuaggaInitDone(j, err)

\* handlePhotoUpload up to reader.readAsDataURL(file): a file was chosen
HandlePhotoUpload ==
    /\ scanMode = "photo-upload"
    /\ photos < MaxPhoto
    /\ photos' = photos + 1
    /\ isProcessing' = TRUE
    /\ inflight' = Append(inflight,
           [origin |-> "read", hasBarcode |-> FALSE, value |-> "", format |-> "",
            acceptedAt |-> now, scan |-> AppScan])
    /\ UNCHANGED <<now, scanMode, lastBarcode, lastScanTime, candidates, timers, timerRef,
                   handlers, emitted, accepts, flushed, hits, seenDet, ocrScans, calls,
                   error, camera, dropped, reported, settled, restarts, readers, quaggaRunning, quaggaInits, switches, plays, inApp,
                   lastResult, appLastScanTime, scanResults>>

\* handlePhotoUpload, reader.onload up to the await of extractTextWithAI:
\* the photo is decoded and the service is invoked, with or without a barcode
PhotoLoaded ==
    \E i \in DOMAIN inflight, d \in PhotoDecodes :
        /\ inflight[i].origin = "read"
        /\ LET call == [origin |-> "photo", hasBarcode |-> d.hasBarcode, value |-> d.value,
                        format |-> d.format, acceptedAt |-> inflight[i].acceptedAt,
                        scan |-> inflight[i].scan] IN
           /\ inflight' = [inflight EXCEPT ![i] = call]
           /\ calls' = Invoke(calls, call)
        /\ UNCHANGED <<now, isProcessing, scanMode, lastBarcode, lastScanTime, candidates,
                       timers, timerRef, handlers, emitted, accepts, flushed, hits, seenDet,
                       ocrScans, error, photos, camera, dropped, reported, settled, restarts, readers, quaggaRunning, quaggaInits, switches, plays, inApp,
                   lastResult, appLastScanTime, scanResults>>

\* App: the user taps Clear All, shown while the list is not empty
ClearResults ==
    /\ inApp
    /\ scanResults # <<>>
    /\ scanResults' = <<>>
    /\ lastResult' = ""
    /\ UNCHANGED <<now, isProcessing, scanMode, lastBarcode, lastScanTime, candidates, timers,
                   timerRef, handlers, inflight, emitted, accepts, flushed, hits, seenDet,
                   ocrScans, calls, error, photos, camera, dropped, reported, settled, restarts, readers, quaggaRunning, quaggaInits, switches, plays, inApp, appLastScanTime>>

\* App.handleScan is called with a result, through the onScan of a decoder
\* callback or of the current render
ScanArrives ==
    \E result \in ScanInputs, cl \in {h.cl : h \in handlers} \cup {Closure} :
        /\ inApp
        /\ HandleScan(result, cl.scan)
        /\ UNCHANGED <<now, isProcessing, scanMode, lastBarcode, lastScanTime, candidates,
                       timers, timerRef, handlers, inflight, emitted, accepts, flushed, hits,
                       seenDet, ocrScans, calls, error, photos, camera, dropped, reported, settled, restarts, readers, quaggaRunning, quaggaInits, switches, plays, inApp>>

\* the clock in steps of one cooldown of App
AdvanceCooldown == AdvanceBy(APP_COOLDOWN)

\* The scanner with its user: detections, flushes, mode and camera switches and
\* manual OCR scans in every order
Next ==
    \/ Advance
    \/ Detect
    \/ SelectBestBarcode
    \/ ResolveOne
    \/ PerformOCRScan
    \/ ToggleCamera
    \/ ToggleScanMode
    \/ CameraOpened
    \/ VideoPlaying
    \/ QuaggaStarted

Spec == Init /\ [][Next]_vars

\* The scanner left alone in the barcode mode, with every answer of the service
NextEnrich ==
    \/ Advance
    \/ Detect
    \/ SelectBestBarcode
    \/ Resolve
    \/ QuaggaStarted

SpecEnrich == Init /\ [][NextEnrich]_vars

\* The same, with what the code's scheduling guarantees: the clock moves on and a
\* due timeout runs.  Nothing bounds the time a call of the service takes.
SpecLive == SpecEnrich /\ WF_vars(Advance) /\ WF_vars(SelectBestBarcode)

\* The three paths that emit results: the barcode pipeline, the manual OCR scan
\* and the photo upload, with every answer of the service.  The scanner is idle
\* in one of its modes, as the mode switches leave it: in the barcode mode both
\* decoders run, in the OCR-only mode no decoder was started, and the photo mode is the one entered while access to
\* the camera was denied, so that no decoder runs there either.
InitPaths ==
    /\ inApp = FALSE
    /\ settled = NoSettle
    /\ reported = {}
    /\ now = Epoch
    /\ isProcessing = FALSE
    /\ scanMode \in ScanModes
    /\ lastBarcode = ""
    /\ lastScanTime = 0
    /\ candidates = <<>>
    /\ timers = {}
    /\ timerRef = 0
    /\ inflight = <<>>
    /\ emitted = <<>>
    /\ accepts = <<>>
    /\ flushed = NoFlush
    /\ hits = NoHits
    /\ seenDet = 0
    /\ ocrScans = 0
    /\ calls = <<>>
    /\ camera = IF scanMode = "photo-upload"
                THEN [name |-> "NotAllowedError", message |-> "Permission denied"]
                ELSE [name |-> "ok", message |-> ""]
    /\ error = IF camera.name = "ok" THEN "" ELSE ErrorMessage(scanMode, camera)
    /\ lastResult = ""
    /\ appLastScanTime = 0
    /\ scanResults = <<>>
    /\ dropped = 0
    /\ restarts = <<>>
    /\ handlers = IF scanMode = "barcode-ocr"
                  THEN {ZXingCallback(Closure), QuaggaCallback(Closure)} ELSE {}
    /\ readers = handlers
    /\ quaggaRunning = (scanMode = "barcode-ocr")
    /\ quaggaInits = <<>>
    /\ switches = 0
    /\ plays = <<>>
    /\ photos = 0

NextPaths ==
    \/ Advance
    \/ Detect
    \/ SelectBestBarcode
    \/ Resolve
    \/ PerformOCRScan
    \/ HandlePhotoUpload
    \/ PhotoLoaded

SpecPaths == InitPaths /\ [][NextPaths]_vars

\* Restarts of the scanner with every outcome of the camera
NextCamera ==
    \/ Advance
    \/ DetectAcrossRestarts
    \/ SelectBestBarcode
    \/ ToggleCameraAgain
    \/ ToggleScanModeAgain
    \/ CameraAnswered
    \/ VideoPlayed
    \/ QuaggaAnswered

SpecCamera == Init /\ [][NextCamera]_vars

\* The aggregator with detections less than a window apart
NextDebounce ==
    \/ AdvanceHalf
    \/ Detect
    \/ SelectBestBarcode
    \/ ResolveOne
    \/ QuaggaStarted

SpecDebounce == Init /\ [][NextDebounce]_vars

\* The scanner under App: the pipeline, restarts by the camera switch, Clear All
NextMounted ==
    \/ Advance
    \/ Detect
    \/ SelectBestBarcode
    \/ ResolveOne
    \/ ToggleCamera
    \/ CameraOpened
    \/ QuaggaStarted
    \/ ClearResults

SpecMounted == InitApp /\ [][NextMounted]_vars

\* App on its own: results arrive in any number, Clear All
NextApp ==
    \/ AdvanceCooldown
    \/ ScanArrives
    \/ ClearResults

SpecApp == InitApp /\ [][NextApp]_vars

\* The aggregator with the dropped detections counted
NextCounted ==
    \/ Advance
    \/ DetectCounted
    \/ SelectBestBarcode
    \/ ResolveOne
    \/ QuaggaStarted

SpecCounted == Init /\ [][NextCounted]_vars

\* The aggregator fed by decoders that disagree on the format of a value
NextRetag ==
    \/ Advance
    \/ DetectRetagged
    \/ SelectBestBarcode
    \/ ResolveOne
    \/ QuaggaStarted

SpecRetag == Init /\ [][NextRetag]_vars

\* The OCR-only mode: the scan button, tapped again while a scan is running or
\* after it, and every answer of the service
InitOcr == InitPaths /\ scanMode = "ocr-only"

NextOcr ==
    \/ Advance
    \/ PerformOCRScanAgain
    \/ Resolve

SpecOcr == InitOcr /\ [][NextOcr]_vars

-----------------------------------------------------------------------------
(* The instant-mode variant of the component: no arbitration window, every   *)
(* detection that passes the test is emitted by handleBarcodeDetected itself *)

\* handleBarcodeDetected, "Only skip if EXACT same barcode scanned within 1 second"
InstantSuppressed(code, last, lastTime, t) ==
    code = last /\ t - lastTime < INSTANT_COOLDOWN

\* handleBarcodeDetected of the variant, called by a decoder callback
InstantHandleBarcodeDetected(code, format, source, cl) ==
    /\ IF InstantSuppressed(code, lastBarcode, lastScanTime, now)
       THEN /\ UNCHANGED <<lastBarcode, lastScanTime>>
            /\ NoScan
       ELSE /\ lastBarcode' = code
            /\ lastScanTime' = now
            /\ OnScan(BarcodeResult(code, format, "", "instant", now), cl.scan)
    /\ UNCHANGED <<now, isProcessing, scanMode, candidates, timers, timerRef, handlers,
                   inflight, accepts, flushed, hits, seenDet, ocrScans, calls, error, photos,
                   camera, reported, settled, restarts, readers, quaggaRunning, quaggaInits, switches, plays, inApp>>

\* what the variant's decoder reports: startQuagga is never called (149-150),
\* every detection comes from the ZXing callback
InstantDetections ==
    { [code |-> d.code, format |-> d.format, source |-> "ZXing"] : d \in Detections }

\* a live decoder callback reports a detection; the dropped ones are counted
InstantDetect ==
    \E d \in InstantDetections, h \in handlers :
        /\ h.src = d.source
        /\ InstantHandleBarcodeDetected(d.code, d.format, d.source, h.cl)
        /\ IF InstantSuppressed(d.code, lastBarcode, lastScanTime, now)
           THEN dropped < MaxDropped /\ dropped' = dropped + 1
           ELSE Len(emitted) < MaxInstant /\ UNCHANGED dropped

\* toggleCamera of the variant, then the effect runs startScanning up to its
\* first await, which has the text of the component's: the reader of the
\* previous run is dropped from codeReaderRef, not stopped, and the stream is
\* stopped
InstantToggleCamera ==
    /\ switches < MaxPending
    /\ switches' = switches + 1
    /\ StartScanning(scanMode)
    /\ UNCHANGED <<now, isProcessing, scanMode, inflight, emitted, accepts, flushed, hits,
                   seenDet, ocrScans, calls, photos, dropped, reported, settled, inApp,
                   lastResult, appLastScanTime, scanResults>>

\* toggleScanMode of the variant, between its two modes, then the effect
InstantToggleScanMode ==
    /\ switches < MaxPending
    /\ switches' = switches + 1
    /\ scanMode' = IF scanMode = "barcode-ocr" THEN "ocr-only" ELSE "barcode-ocr"
    /\ StartScanning(scanMode')
    /\ UNCHANGED <<now, isProcessing, inflight, emitted, accepts, flushed, hits, seenDet,
                   ocrScans, calls, photos, dropped, reported, settled, inApp,
                   lastResult, appLastScanTime, scanResults>>

\* run i of the variant's startScanning goes on after its awaits, the camera
\* having answered with cam.  If the camera opened, a stream is attached again
\* and, in the barcode mode, the ZXing callback of the run's render is
\* registered; Quagga is not started.  A run of the OCR-only mode then waits
\* for play() (232).  If the camera did not open, the catch sets the message,
\* which has the text of the component's.
InstantStarted(i, cam) ==
    LET run == restarts[i]
        decodes == cam.name = "ok" /\ run.mode # "ocr-only"
    IN
    /\ restarts' = RemoveAt(restarts, i)
    /\ camera' = cam
    /\ IF cam.name = "ok"
       THEN /\ \E kept \in SUBSET ZXingReaders :
                  handlers' = handlers \cup kept
                                \cup (IF decodes THEN {ZXingCallback(run.cl)} ELSE {})
            /\ readers' = readers \cup (IF decodes THEN {ZXingCallback(run.cl)} ELSE {})
            /\ UNCHANGED error
       ELSE /\ error' = ErrorMessage(run.mode, cam)
            /\ UNCHANGED <<handlers, readers>>
    /\ plays' = IF cam.name = "ok" /\ run.mode = "ocr-only"
                THEN Append(plays, run)
                ELSE plays
    /\ UNCHANGED <<now, isProcessing, scanMode, lastBarcode, lastScanTime, candidates,
                   timers, timerRef, inflight, emitted, accepts, flushed, hits, seenDet,
                   ocrScans, calls, photos, dropped, reported, settled, inApp,
                   quaggaRunning, quaggaInits, switches, lastResult, appLastScanTime,
                   scanResults>>

\* a waiting run of the variant goes on, whatever the camera answered
InstantCameraAnswered ==
    \E i \in DOMAIN restarts, cam \in CameraOutcomes : InstantStarted(i, cam)

\* startOCROnlyMode of the variant after the await of play() (232): the same
\* text as the component's
InstantVideoPlayed == VideoPlayed

\* performOCRScan of the variant: the same text as the component's
InstantPerformOCRScan == PerformOCRScan

\* the clock in steps of half the variant's cooldown
InstantAdvance == AdvanceBy(INSTANT_COOLDOWN \div 2)

\* the variant once the camera opened: the ZXing callback is registered
InitInstant ==
    /\ Rendered(FALSE)
    /\ handlers = {ZXingCallback(Closure)}
    /\ readers = handlers
    /\ quaggaRunning = FALSE
    /\ quaggaInits = <<>>

NextInstant ==
    \/ InstantAdvance
    \/ InstantDetect
    \/ InstantToggleCamera
    \/ InstantToggleScanMode
    \/ InstantCameraAnswered
    \/ InstantVideoPlayed
    \/ InstantPerformOCRScan
    \/ ResolveOne

SpecInstant == InitInstant /\ [][NextInstant]_vars

-----------------------------------------------------------------------------
(* One run of selectBestBarcode over every small candidate set *)

\* the entries a candidate Map may hold
CandEntries ==
    { [code |-> v, format |-> f, source |-> IF f = "code_128" THEN "Quagga" ELSE "ZXing",
       count |-> n, firstSeen |-> Epoch] : v \in Values, f \in Formats, n \in 1..MaxHits }

\* the candidate Maps of up to MaxFlushCands entries: keys are distinct
CandSeqs ==
    UNION { { s \in [1..n -> CandEntries] :
                \A i, j \in 1..n : i # j => s[i].code # s[j].code } : n \in 0..MaxFlushCands }

InitFlush ==
    /\ inApp = FALSE
    /\ settled = NoSettle
    /\ now = Epoch
    /\ scanMode = "barcode-ocr"
    /\ lastBarcode = ""
    /\ lastScanTime = 0
    /\ candidates \in CandSeqs
    /\ reported = {[code |-> candidates[i].code, format |-> candidates[i].format] :
                      i \in DOMAIN candidates}
    /\ timerRef = 1
    /\ inflight = <<>>
    /\ emitted = <<>>
    /\ accepts = <<>>
    /\ flushed = NoFlush
    /\ hits = [v \in Values |->
                 IF IndexOf(candidates, v) # 0 THEN candidates[IndexOf(candidates, v)].count
                 ELSE 0]
    /\ seenDet = 1
    /\ ocrScans = 0
    /\ calls = <<>>
    /\ error = ""
    /\ photos = 0
    /\ camera = [name |-> "ok", message |-> ""]
    /\ lastResult = ""
    /\ appLastScanTime = 0
    /\ scanResults = <<>>
    /\ dropped = 0
    /\ restarts = <<>>
    /\ \E proc \in BOOLEAN :
         /\ isProcessing = proc
         /\ handlers = {ZXingCallback(Closure), QuaggaCallback(Closure)}
         /\ readers = handlers
         /\ quaggaRunning = TRUE
         /\ quaggaInits = <<>>
         /\ switches = 0
         /\ plays = <<>>
         /\ timers = {[id |-> 1, due |-> Epoch, proc |-> proc, scan |-> AppScan]}

NextFlush ==
    \/ SelectBestBarcode
    \/ Resolve

SpecFlush == InitFlush /\ [][NextFlush]_vars

-----------------------------------------------------------------------------
(* Properties *)

\* a step in which a timeout fired and ran selectBestBarcode
FlushStep == timers' # timers /\ seenDet' = seenDet

\* the entries of a candidate set that survive the high-priority partition
Survivors(cands) ==
    LET all == {cands[i] : i \in DOMAIN cands} IN
    IF \E c \in all : c.format = "code_128"
    THEN {c \in all : c.format = "code_128"}
    ELSE all

\* C1: when the candidate set handed to selectBestBarcode holds a code_128
\* candidate, the candidate it chooses has format code_128, whatever the lengths
\* and hit counts of the others.
C1_Code128Priority ==
    (flushed.outcome = "accepted"
        /\ \E i \in DOMAIN flushed.seen : flushed.seen[i].format = "code_128")
    => flushed.best.data.format = "code_128"

\* C1 witness: "111"/ean seen twice and the 18-digit code_128 value seen once;
\* the code_128 value was chosen.
C1_Witness ==
    /\ flushed.outcome = "accepted"
    /\ \E i, j \in DOMAIN flushed.seen :
         /\ flushed.seen[i].code = "111" /\ flushed.seen[i].format = "ean_13"
         /\ flushed.seen[i].count = 2
         /\ flushed.seen[j].code = "999999999999999999"
         /\ flushed.seen[j].format = "code_128" /\ flushed.seen[j].count = 1
    /\ flushed.best.code = "999999999999999999"
    /\ accepts # <<>> /\ accepts[Len(accepts)].value = "999999999999999999"

\* C2: the chosen candidate is one of the survivors of the partition, no survivor
\* is longer, and no survivor of the same length has a higher hit count.
C2_LongestThenMostSeen ==
    flushed.outcome = "accepted" =>
        /\ \E c \in Survivors(flushed.seen) :
             /\ c.code = flushed.best.code
             /\ c.count = flushed.best.data.count
             /\ c.format = flushed.best.data.format
        /\ \A c \in Survivors(flushed.seen) :
             /\ Len(c.code) <= Len(flushed.best.code)
             /\ Len(c.code) = Len(flushed.best.code) => c.count <= flushed.best.data.count

\* C2 witness: two survivors of the same length, the later one seen more often,
\* and a shorter or non-surviving third; the later one was chosen.
C2_Witness ==
    /\ flushed.outcome = "accepted"
    /\ Len(flushed.seen) >= 2
    /\ flushed.seen[1].code = "111" /\ flushed.seen[2].code = "555"
    /\ flushed.seen[1].format = flushed.seen[2].format
    /\ flushed.seen[1].count < flushed.seen[2].count
    /\ flushed.best.code = "555"

\* the value selectBestBarcode would choose from the current candidate set
Winner == SelectBest(candidates).code

\* the last candidate accepted so far
LastAccept == accepts[Len(accepts)]

\* C3: a detection of the last accepted value is dropped exactly while less than
\* COOLDOWN has elapsed since that acceptance: dropped before, aggregated (and so
\* able to win and be accepted) from COOLDOWN on.
C3_CooldownFromAcceptance ==
    accepts # <<>> =>
        (Suppressed(LastAccept.value, lastBarcode, lastScanTime, now)
            <=> now - LastAccept.at < COOLDOWN)

\* C4: when a timeout fires while nothing is being processed and the winner of
\* the candidate set differs from the last accepted value, the winner is accepted.
C4_DifferentValueAccepted ==
    [][(FlushStep /\ ~isProcessing /\ Winner # "" /\ Winner # lastBarcode)
          => (Len(accepts') = Len(accepts) + 1
              /\ accepts'[Len(accepts')].value = Winner
              /\ lastBarcode' = Winner)]_vars

\* C5: any two acceptances of the same value are at least COOLDOWN apart.
C5_SameValueSpacing ==
    \A i, j \in DOMAIN accepts :
        (i < j /\ accepts[i].value = accepts[j].value)
            => accepts[j].at - accepts[i].at >= COOLDOWN

\* C5 witness: a value accepted, another value accepted, and the first value
\* accepted again exactly COOLDOWN after its first acceptance.
C5_Witness ==
    /\ Len(accepts) = 3
    /\ accepts[1].value = accepts[3].value
    /\ accepts[2].value # accepts[1].value
    /\ accepts[3].at - accepts[1].at = COOLDOWN

\* C6: every time a timeout fires, the candidate set is empty when
\* selectBestBarcode returns.
C6_FlushClears ==
    [][FlushStep => candidates' = <<>>]_vars

\* C7: at most one timeout is pending at any moment, and every aggregated
\* detection leaves exactly one, due WINDOW after the detection and held by
\* barcodeSelectionTimerRef.
C7_SinglePendingTimer ==
    /\ [](Cardinality(timers) <= 1)
    /\ [][seenDet' # seenDet =>
             \E t \in timers' :
                 timers' = {t} /\ t.id = timerRef' /\ t.due = now + WINDOW]_vars

\* C7 witness: a second detection, later than the first, found the first
\* timeout pending and replaced it.
C7_Witness ==
    /\ seenDet = 2
    /\ Len(candidates) >= 1
    /\ candidates[1].firstSeen < now
    /\ \E t \in timers : timers = {t} /\ t.id = 2 /\ t.due = now + WINDOW /\ ~t.proc
    /\ timerRef = 2
    /\ flushed = NoFlush

\* C8: the hit count of every candidate is the number of detections of its value
\* aggregated since the candidate set was last cleared, values without a
\* candidate have none, and the count of the chosen candidate is that number.
C8_HitCountIsDetections ==
    /\ \A i \in DOMAIN candidates : candidates[i].count = hits[candidates[i].code]
    /\ \A v \in Values : hits[v] > 0 => \E i \in DOMAIN candidates : candidates[i].code = v
    /\ flushed.outcome = "accepted" =>
           flushed.best.data.count = flushed.hits[flushed.best.code]

\* C8 witness: three detections of one value, from both decoders, and the value
\* chosen with a hit count of 3.
C8_Witness ==
    /\ flushed.outcome = "accepted"
    /\ flushed.best.code = "111"
    /\ flushed.hits["111"] = 3
    /\ flushed.best.data.count = 3
    /\ Len(flushed.seen) = 1

\* C9: a run of selectBestBarcode over an empty candidate set selects nothing,
\* emits nothing and leaves the last accepted value, its time and the processing
\* flag as they were.
C9_EmptyFlushIsNoOp ==
    [][(FlushStep /\ candidates = <<>>) =>
          UNCHANGED <<accepts, emitted, inflight, lastBarcode, lastScanTime,
                      isProcessing, candidates>>]_vars

\* C9 witness: selectBestBarcode ran over an empty set.
C9_Witness ==
    /\ flushed.outcome = "empty"
    /\ flushed.seen = <<>>
    /\ timers = {}

\* C10: a result emitted after a failed extraction and a result emitted after an
\* extraction that found no text never carry the same text.
C10_FailureDistinctFromNoText ==
    \A i, j \in DOMAIN emitted :
        (emitted[i].origin = "live" /\ emitted[j].origin = "live"
            /\ emitted[i].class = "failed" /\ emitted[j].class = "notext")
        => emitted[i].text # emitted[j].text

\* number of results emitted by the barcode pipeline for the k-th acceptance
EmissionsFor(k) ==
    Cardinality({i \in DOMAIN emitted :
                    emitted[i].origin = "live" /\ emitted[i].acceptedAt = accepts[k].at})

\* number of pending calls started by the k-th acceptance
PendingFor(k) ==
    Cardinality({i \in DOMAIN inflight :
                    inflight[i].origin = "live" /\ inflight[i].acceptedAt = accepts[k].at})

\* number of invocations of the service made by the k-th acceptance
CallsFor(k) ==
    Cardinality({i \in DOMAIN calls :
                    calls[i].origin = "live" /\ calls[i].acceptedAt = accepts[k].at})

\* a step in which a call of extractTextWithAI settled
SettleStep == Len(inflight') < Len(inflight)

\* a step in which selectBestBarcode accepted a candidate
AcceptStep == Len(accepts') > Len(accepts)

\* a step in which startScanning ran again, up to its first await
ResetStep == Len(restarts') > Len(restarts)

\* C11: a run of selectBestBarcode accepts at most one candidate, and every
\* accepted barcode has either been emitted exactly once or has exactly one call
\* pending whose settlement emits it: never two results, and one once no call is
\* pending; every result of the barcode pipeline belongs to an acceptance.
C11_OneEmissionPerAcceptance ==
    /\ [](/\ \A k \in DOMAIN accepts :
                EmissionsFor(k) + PendingFor(k) = 1
          /\ \A i \in DOMAIN emitted :
                emitted[i].origin = "live" =>
                    \E k \in DOMAIN accepts : accepts[k].at = emitted[i].acceptedAt)
    /\ [][Len(accepts') <= Len(accepts) + 1]_vars

\* C11 witness: three acceptances, one with a failed snapshot, one whose
\* extraction found text and one whose extraction failed; three results, no
\* call pending.
C11_Witness ==
    /\ Len(accepts) = 3
    /\ Len(emitted) = 3
    /\ inflight = <<>>
    /\ {emitted[i].class : i \in DOMAIN emitted} = {"noshot", "text", "failed"}

\* C12: an acceptance with a successful snapshot invokes the service exactly
\* once, one with a failed snapshot never, and a call that settles, failed or
\* not, is followed by no further invocation.
C12_OneCallPerAcceptance ==
    /\ [](\A k \in DOMAIN accepts : CallsFor(k) = IF accepts[k].shot THEN 1 ELSE 0)
    /\ [][SettleStep => calls' = calls]_vars

\* C12 witness: one acceptance, its only call failed and settled, its result
\* emitted, and still one invocation on record.
C12_Witness ==
    /\ Len(accepts) = 1 /\ accepts[1].shot
    /\ Len(calls) = 1
    /\ inflight = <<>>
    /\ Len(emitted) = 1 /\ emitted[1].class = "failed"
    /\ now > accepts[1].at

\* C13: an acceptance whose snapshot failed emits, in the same run, one result
\* with the accepted value and format and an empty text, invokes no extraction
\* and leaves the processing flag idle.
C13_SnapshotFailure ==
    [][(AcceptStep /\ ~accepts'[Len(accepts')].shot) =>
          /\ Len(emitted') = Len(emitted) + 1
          /\ emitted'[Len(emitted')].text = ""
          /\ emitted'[Len(emitted')].hasBarcode
          /\ emitted'[Len(emitted')].barcode.value = accepts'[Len(accepts')].value
          /\ emitted'[Len(emitted')].barcode.format = accepts'[Len(accepts')].format
          /\ calls' = calls
          /\ inflight' = inflight
          /\ isProcessing' = FALSE]_vars

\* C13 witness: the 18-digit value accepted with a failed snapshot: a result
\* with an empty text, no invocation, flag idle.
C13_Witness ==
    /\ Len(accepts) = 1 /\ ~accepts[1].shot
    /\ accepts[1].value = "999999999999999999"
    /\ Len(emitted) = 1
    /\ emitted[1].text = "" /\ emitted[1].barcode.value = "999999999999999999"
    /\ calls = <<>> /\ inflight = <<>> /\ ~isProcessing

\* C14: every result of the barcode pipeline carries the value and the format
\* of the acceptance that started its extraction.
C14_ResultCarriesItsBarcode ==
    \A i \in DOMAIN emitted :
        emitted[i].origin = "live" =>
            \E k \in DOMAIN accepts :
                /\ accepts[k].at = emitted[i].acceptedAt
                /\ accepts[k].value = emitted[i].barcode.value
                /\ accepts[k].format = emitted[i].barcode.format

\* C14 witness: two calls pending at once for two different barcodes, settled
\* in the reverse order; each result carries the barcode of its own acceptance.
C14_Witness ==
    /\ Len(accepts) = 2 /\ accepts[1].value # accepts[2].value
    /\ accepts[1].shot /\ accepts[2].shot
    /\ Len(emitted) = 2
    /\ emitted[1].acceptedAt = accepts[2].at
    /\ emitted[1].barcode.value = accepts[2].value
    /\ emitted[2].acceptedAt = accepts[1].at
    /\ emitted[2].barcode.value = accepts[1].value

\* C15: when a call settles after a newer barcode was accepted, its result is
\* not emitted: whatever a settling call emits belongs to the newest acceptance.
C15_StaleResultDiscarded ==
    [][(SettleStep /\ Len(emitted') > Len(emitted)
            /\ emitted'[Len(emitted')].origin = "live")
          => emitted'[Len(emitted')].acceptedAt = LastAccept.at]_vars

\* C16: the result of an accepted barcode is emitted by the run that accepts
\* it, without waiting for the extraction, and a timeout that fires while a call
\* is pending accepts the winner of its candidate set.
C16_EnrichmentDoesNotDelay ==
    /\ [][AcceptStep => Len(emitted') = Len(emitted) + 1]_vars
    /\ [][(FlushStep /\ inflight # <<>> /\ Winner # "") => AcceptStep]_vars

\* C17: when startScanning runs again, no timeout is left pending.
C17_ResetCancelsTimer ==
    [][ResetStep => timers' = {}]_vars

\* C18: when startScanning runs again, the candidate set is empty afterwards.
C18_ResetClearsCandidates ==
    [][ResetStep => candidates' = <<>>]_vars

\* a step in which a run of startScanning went on after the camera answered
StartedStep == Len(restarts') < Len(restarts)

\* C19: while a run of startScanning waits for the camera no decoder callback
\* delivers, and when the run has opened the camera the only callbacks that
\* deliver are the ones it has just registered: none in the OCR-only mode, else
\* the ZXing callback of the run's render.
C19_ResetStopsDecoders ==
    /\ [](restarts # <<>> => handlers = {})
    /\ [][(StartedStep /\ camera'.name = "ok") =>
             \E i \in DOMAIN restarts :
                 /\ restarts' = RemoveAt(restarts, i)
                 /\ handlers' \subseteq (IF restarts[i].mode = "ocr-only" THEN {}
                                         ELSE {ZXingCallback(restarts[i].cl)})]_vars

\* C20: when startScanning runs again, lastBarcodeRef and lastScanTimeRef keep
\* their values, and in every state less than COOLDOWN after the last acceptance
\* a detection of the accepted value meets the test that drops it.
C20_ResetKeepsLastAccepted ==
    /\ [][ResetStep => UNCHANGED <<lastBarcode, lastScanTime>>]_vars
    /\ []((accepts # <<>> /\ now - LastAccept.at < COOLDOWN) =>
             (lastBarcode = LastAccept.value /\ now - lastScanTime < COOLDOWN))

\* C20 witness: a barcode was accepted, the scanner was restarted while its
\* extraction was pending, and WINDOW later the accepted value is still dropped.
C20_Witness ==
    /\ Len(accepts) = 1 /\ ocrScans = 0
    /\ handlers # {} /\ \A h \in handlers : h.cl.proc
    /\ now = LastAccept.at + WINDOW
    /\ lastBarcode = LastAccept.value /\ lastScanTime = LastAccept.at
    /\ Suppressed(LastAccept.value, lastBarcode, lastScanTime, now)

\* C21: every ScanResult passed to onScan has a barcode or a non-empty text:
\* the results of the live barcode pipeline carry a barcode, and a result
\* without a barcode (manual OCR scan, photo without barcode) carries a text
\* that is not empty.
C21_BarcodeOrText ==
    \A k \in DOMAIN emitted :
        /\ emitted[k].origin = "live" => emitted[k].hasBarcode
        /\ ~emitted[k].hasBarcode => emitted[k].text # ""

\* a photo without barcode and a manual OCR scan each produced a text-only result
C21_Witness ==
    \E k \in DOMAIN emitted :
        /\ emitted[k].origin \in {"photo", "ocr"}
        /\ ~emitted[k].hasBarcode
        /\ emitted[k].text = "LOT 42"
        /\ emitted[k].class = "text"

\* the number of results the barcode pipeline has emitted
LiveEmissions == Cardinality({k \in DOMAIN emitted : emitted[k].origin = "live"})

\* C22: every accepted barcode eventually produces its emission, and the
\* processing flag, once busy, eventually returns to idle.
C22_AcceptedEventuallyEmitted ==
    /\ \A n \in 1..MaxDetect : (Len(accepts) >= n) ~> (LiveEmissions >= n)
    /\ isProcessing ~> ~isProcessing

\* a step in which handleBarcodeDetected aggregated a detection
ObserveStep == seenDet' = seenDet + 1

\* C23, as stated: the arbitration window is a debounce without a maximum
\* wait.  Every aggregated observation leaves exactly one pending flush, due
\* 1500 ms after it; a flush runs only for the timeout of the latest aggregated
\* observation, and exactly 1500 ms after that observation.
C23_DebounceNoMaxWait ==
    /\ [][ObserveStep => \E t \in timers' :
                             timers' = {t} /\ t.id = timerRef' /\ t.due = now + WINDOW]_vars
    /\ [][FlushStep => \A t \in timers \ timers' :
                           /\ t.id = timerRef
                           /\ now = t.due]_vars

\* C23, amended: the same, but the flush runs 1500 ms after the latest
\* aggregated observation or later, never earlier, so that every candidate it
\* finds was first seen at least 1500 ms before.
C23_DebounceAtLeastWindow ==
    /\ [][ObserveStep => \E t \in timers' :
                             timers' = {t} /\ t.id = timerRef' /\ t.due = now + WINDOW]_vars
    /\ [][FlushStep => \A t \in timers \ timers' :
                           /\ t.id = timerRef
                           /\ now >= t.due
                           /\ \A c \in {candidates[i] : i \in DOMAIN candidates} :
                                  c.firstSeen + WINDOW <= now]_vars

\* observations 750 ms apart kept the window open: the first candidate was seen
\* more than one window ago, three observations have been aggregated, nothing
\* has been selected and the flush is still pending
C23_Witness ==
    /\ seenDet = 3
    /\ candidates # <<>>
    /\ now > candidates[1].firstSeen + WINDOW
    /\ flushed = NoFlush
    /\ accepts = <<>>
    /\ emitted = <<>>
    /\ \E t \in timers : t.due > now

\* C24: a barcode detected by the live scanner is reported in under one second
\* from its first detection: a result is emitted no earlier than its barcode is
\* accepted, so for every result of the latest acceptance the acceptance lies
\* less than REPORT_LIMIT after the first detection of the accepted candidate.
C24_ReportedWithinLimit ==
    \A k \in DOMAIN emitted :
        (/\ emitted[k].origin = "live"
         /\ flushed.outcome = "accepted"
         /\ emitted[k].acceptedAt = flushed.at
         /\ emitted[k].barcode.value = flushed.best.code)
        => flushed.at - flushed.best.data.firstSeen < REPORT_LIMIT

\* the candidate sets that hold the entries of cands in another order of arrival
Reorderings(cands) ==
    { [i \in DOMAIN cands |-> cands[f[i]]] : f \in Permutations(DOMAIN cands) }

\* C25: the winner depends on the candidates only (values, formats, hit
\* counts), not on the order in which they arrived.
C25_OrderIndependent ==
    \A q \in Reorderings(candidates) : SelectBest(q).code = SelectBest(candidates).code

\* C26: the last-accepted record (lastBarcode, lastScanTime) changes only in a
\* step in which the barcode pipeline accepts a candidate.
C26_LastAcceptedOnlyByAcceptance ==
    [][~AcceptStep => UNCHANGED <<lastBarcode, lastScanTime>>]_vars

\* C28: a flush that runs while the processing flag is busy accepts nothing: it
\* emits nothing, starts no extraction call and leaves the last-accepted
\* record unchanged.
C28_BusyBlocksAcceptance ==
    [][(FlushStep /\ isProcessing) =>
          (~AcceptStep /\ UNCHANGED <<emitted, calls, inflight, lastBarcode, lastScanTime>>)]_vars

\* the extraction calls of the barcode pipeline that are in flight
LiveInFlight == {i \in DOMAIN inflight : inflight[i].origin = "live"}

\* C29: while an extraction call of the barcode pipeline is in flight the
\* processing flag is busy, and at most one such call is in flight.
C29_SingleFlight ==
    /\ LiveInFlight # {} => isProcessing
    /\ Cardinality(LiveInFlight) <= 1

\* C30: the results of the barcode pipeline are emitted in the order of their
\* acceptances.
C30_EmissionOrder ==
    \A j, k \in DOMAIN emitted :
        (j < k /\ emitted[j].origin = "live" /\ emitted[k].origin = "live")
        => emitted[j].acceptedAt <= emitted[k].acceptedAt

\* the categories of failure the catch of startScanning tells apart
Category(cam) ==
    IF cam.name \in {"NotAllowedError", "NotFoundError", "NotReadableError"}
    THEN cam.name ELSE "other"

\* C27: when a run of startScanning fails to open the camera, the error state
\* is set to a non-empty message that no failure of another category produces,
\* no decoder callback delivers afterwards, and the candidate set, the timer
\* and the last-accepted record are left as they were.
C27_CameraFailure ==
    [][(StartedStep /\ camera'.name # "ok") =>
          /\ \E i \in DOMAIN restarts :
                /\ restarts' = RemoveAt(restarts, i)
                /\ error' = ErrorMessage(restarts[i].mode, camera')
                /\ \A c \in CameraOutcomes :
                      (c.name # "ok" /\ Category(c) # Category(camera'))
                      => error' # ErrorMessage(restarts[i].mode, c)
          /\ error' # ""
          /\ handlers' = {}
          /\ UNCHANGED <<candidates, timers, timerRef, lastBarcode, lastScanTime>>]_vars

\* a step in which onScan was called
EmitStep == Len(emitted') > Len(emitted)

\* the result passed to onScan in an EmitStep
Emitted == emitted'[Len(emitted')]

\* a step in which App.handleScan recorded the result it was called with
RecordStep(result) ==
    /\ lastResult' = ResultKey(result)
    /\ appLastScanTime' = now
    /\ scanResults' = Prepend(scanResults, DisplayResult(result, now))

\* C31: every result the barcode pipeline emits is added to the results list of
\* App: the duplicate filter of App never drops it.
C31_LiveResultIsListed ==
    [][(EmitStep /\ Emitted.origin = "live") => RecordStep(Emitted)]_vars

\* C32: App.handleScan leaves list, lastResult and lastScanTime unchanged
\* exactly when the key of the result equals lastResult and less than
\* APP_COOLDOWN passed since lastScanTime; otherwise it records key and time
\* and prepends the result.
C32_IgnoredExactlyWhenDuplicate ==
    [][EmitStep =>
          IF ResultKey(Emitted) = lastResult /\ now - appLastScanTime < APP_COOLDOWN
          THEN UNCHANGED <<lastResult, appLastScanTime, scanResults>>
          ELSE RecordStep(Emitted)]_vars

\* C33: the results list of App holds at most KEEP + 1 entries, newest first,
\* and they are the results recorded most recently: a recording puts the new
\* result in front of the KEEP newest entries, Clear All empties the list, and
\* nothing else changes it.
C33_ListIsTheNewestTen ==
    /\ [](Len(scanResults) <= KEEP + 1)
    /\ [](\A i, j \in DOMAIN scanResults :
             i < j => scanResults[i].timestamp >= scanResults[j].timestamp)
    /\ [][scanResults' # scanResults =>
             \/ scanResults' = <<>>
             \/ /\ Len(scanResults') >= 1
                /\ scanResults'[1].timestamp = now
                /\ \A i \in 2..Len(scanResults') : scanResults'[i] = scanResults[i - 1]
                /\ Len(scanResults') = (IF Len(scanResults) <= KEEP
                                         THEN Len(scanResults) + 1 ELSE KEEP + 1)]_vars

\* the list is full, an eleventh result has pushed the oldest one out, and the
\* entries span more than one instant
C33_Witness ==
    /\ Len(scanResults) = KEEP + 1
    /\ scanResults[1].timestamp > scanResults[KEEP + 1].timestamp
    /\ scanResults[KEEP + 1].timestamp > Epoch

\* C34: after Clear All (the list is empty and lastResult is reset) the first
\* result with a non-empty key is recorded, whatever was recorded before.
C34_FirstAfterClearRecorded ==
    [][(EmitStep /\ scanResults = <<>> /\ lastResult = "" /\ ResultKey(Emitted) # "")
          => RecordStep(Emitted)]_vars

\* C35: a detection dropped by the cooldown test changes nothing: candidates,
\* hit counts, the pending timeout and its id, and the last-accepted record
\* are as before, and so is everything else.
C35_DroppedDetectionNoEffect ==
    [][dropped' # dropped =>
          UNCHANGED <<candidates, hits, timers, timerRef, lastBarcode, lastScanTime,
                      seenDet, isProcessing, inflight, emitted, accepts, flushed, calls>>]_vars

\* a detection of the accepted value was dropped while another candidate was
\* waiting for its flush
C35_Witness ==
    /\ dropped = 1
    /\ candidates # <<>>
    /\ \E t \in timers : t.due > now
    /\ now - lastScanTime < COOLDOWN
    /\ IndexOf(candidates, lastBarcode) = 0

\* C36: the format, the source and firstSeen of a candidate are those of the
\* detection that created its entry: while the entry exists they never change,
\* a later detection of its value, whatever its format tag and decoder, adds one
\* to its hit count and changes nothing else in the set, and selectBestBarcode
\* partitions by the stored formats, not by a tag reported later.
C36_FirstDetectionFixesEntry ==
    /\ [][\A i \in DOMAIN candidates \cap DOMAIN candidates' :
             /\ candidates'[i].code = candidates[i].code
             /\ candidates'[i].format = candidates[i].format
             /\ candidates'[i].source = candidates[i].source
             /\ candidates'[i].firstSeen = candidates[i].firstSeen]_vars
    /\ [][ObserveStep =>
             \/ /\ Len(candidates') = Len(candidates)
                /\ \E i \in DOMAIN candidates :
                      candidates' = [candidates EXCEPT ![i].count = @ + 1]
             \/ /\ Len(candidates') = Len(candidates) + 1
                /\ \A i \in DOMAIN candidates : candidates'[i] = candidates[i]
                /\ LET new == candidates'[Len(candidates')] IN
                      /\ new.count = 1 /\ new.firstSeen = now
                      /\ IndexOf(candidates, new.code) = 0
                      /\ [code |-> new.code, format |-> new.format] \in reported'
                      /\ \E d \in TaggedDetections :
                            d.code = new.code /\ d.format = new.format
                                /\ d.source = new.source]_vars
    /\ [](flushed.outcome = "accepted" =>
             /\ \E c \in Survivors(flushed.seen) :
                   c.code = flushed.best.code /\ c.format = flushed.best.data.format
             /\ \A c \in Survivors(flushed.seen) : Len(c.code) <= Len(flushed.best.code))

\* C36 witness: "111" was first reported as ean_13 by ZXing and then as code_128
\* by Quagga; its entry stayed ean_13/ZXing with two hits, so no candidate was
\* high-priority and the longer ean_13 value was accepted.
C36_Witness ==
    /\ flushed.outcome = "accepted"
    /\ [code |-> "111", format |-> "code_128"] \in flushed.reported
    /\ \E i, j \in DOMAIN flushed.seen :
         /\ flushed.seen[i].code = "111" /\ flushed.seen[i].format = "ean_13"
         /\ flushed.seen[i].source = "ZXing" /\ flushed.seen[i].count = 2
         /\ flushed.seen[j].code = "999999999999999999" /\ flushed.seen[j].format = "ean_13"
    /\ flushed.best.code = "999999999999999999"
    /\ accepts # <<>> /\ LastAccept.value = "999999999999999999"

\* a step in which performOCRScan was called
OcrTap == ocrScans' = ocrScans + 1

\* a step in which the extraction of a manual OCR scan settled
OcrSettleStep == SettleStep /\ settled'.origin = "ocr"

\* C37: performOCRScan called while the processing flag is busy changes
\* nothing; called while idle it emits nothing before the extraction settles
\* (nothing at all when the snapshot fails), and when the extraction settles it
\* emits exactly one result, without barcode and with the extracted text, if the
\* service returned content that is not blank and not NO_TEXT_FOUND, and
\* nothing otherwise.
C37_ManualScanEmission ==
    /\ [][(OcrTap /\ isProcessing) =>
             UNCHANGED <<now, isProcessing, scanMode, lastBarcode, lastScanTime, candidates,
                         timers, timerRef, handlers, inflight, emitted, accepts, flushed,
                         hits, seenDet, calls, error, photos, lastResult, appLastScanTime,
                         scanResults>>]_vars
    /\ [][(OcrTap /\ ~isProcessing) =>
             /\ emitted' = emitted
             /\ \/ inflight' = inflight /\ calls' = calls
                \/ /\ Len(inflight') = Len(inflight) + 1
                   /\ inflight'[Len(inflight')].origin = "ocr"
                   /\ Len(calls') = Len(calls) + 1]_vars
    /\ [][OcrSettleStep =>
             LET r == settled'.resp IN
             IF r.kind = "content" /\ Trim(r.content) \notin {"", "NO_TEXT_FOUND"}
             THEN /\ Len(emitted') = Len(emitted) + 1
                  /\ SubSeq(emitted', 1, Len(emitted)) = emitted
                  /\ ~Emitted.hasBarcode
                  /\ Emitted.origin = "ocr"
                  /\ Emitted.text = Trim(r.content)
             ELSE emitted' = emitted]_vars

\* C37 witness: the button was tapped twice, the second time while the first
\* scan was running; one call was made, the service answered " LOT 42 " and
\* one text-only result "LOT 42" was emitted.
C37_Witness ==
    /\ ocrScans = 2
    /\ Len(calls) = 1 /\ calls[1].origin = "ocr"
    /\ inflight = <<>>
    /\ settled.origin = "ocr" /\ settled.resp.content = " LOT 42 "
    /\ Len(emitted) = 1
    /\ emitted[1].text = "LOT 42" /\ ~emitted[1].hasBarcode

\* C38: a performOCRScan that set the processing flag leaves it idle when it
\* ends: at once when the snapshot fails, and else when its extraction settles,
\* whatever the service answered.
C38_ManualScanReleasesFlag ==
    /\ [][(OcrTap /\ ~isProcessing /\ inflight' = inflight) => ~isProcessing']_vars
    /\ [][(OcrTap /\ ~isProcessing /\ inflight' # inflight) => isProcessing']_vars
    /\ [][OcrSettleStep => ~isProcessing']_vars

\* C38 witness: a manual scan whose request failed has ended, no call is
\* pending, nothing was emitted and the flag is idle.
C38_Witness ==
    /\ ocrScans = 1
    /\ Len(calls) = 1 /\ calls[1].origin = "ocr"
    /\ settled.origin = "ocr" /\ settled.resp.kind = "fetchThrows"
    /\ inflight = <<>> /\ emitted = <<>>
    /\ ~isProcessing

\* the results handleBarcodeDetected of the variant has emitted
IsInstant(e) == e.origin = "live"
InstantEmissions == SelectSeq(emitted, IsInstant)

\* C39: in the instant-mode variant a detection is dropped exactly when its
\* value is the one emitted last and less than INSTANT_COOLDOWN passed since
\* that emission, and two emissions in a row of one value are at least
\* INSTANT_COOLDOWN apart.
C39_InstantCooldown ==
    LET e == InstantEmissions IN
    /\ \A d \in Detections :
         InstantSuppressed(d.code, lastBarcode, lastScanTime, now)
            <=> /\ e # <<>>
                /\ d.code = e[Len(e)].barcode.value
                /\ now - e[Len(e)].acceptedAt < INSTANT_COOLDOWN
    /\ \A k \in 1..(Len(e) - 1) :
         e[k].barcode.value = e[k + 1].barcode.value
            => e[k + 1].acceptedAt - e[k].acceptedAt >= INSTANT_COOLDOWN

====
